---- MODULE Spec2Model ----
(***************************************************************************)
(* Verification model of three pieces of nemo_text_processing:             *)
(*   - NormalizerWithAudio.normalize_with_audio (candidate generation      *)
(*     loop, punctuation normalisation, CER scoring and selection),        *)
(*   - the measure tagger MeasureFst (taggers/measure.py),                 *)
(*   - the money verbalizer MoneyFst (verbalizers/money.py).               *)
(* Text is a sequence of one-character strings; a tagged string is a       *)
(* sequence of lexical tokens (field names, braces, quotes, spaces and     *)
(* words).  A transducer is a function from a set of parse configurations  *)
(* [rest, out, w] to the set of configurations after it has consumed a     *)
(* prefix of rest, appended to out and added its weight to w:              *)
(* concatenation A + B is B(A(S)), union A | B is A(S) \cup B(S).          *)
(***************************************************************************)
EXTENDS Integers, Sequences, FiniteSets, TLC

VARIABLES
    \* ---- normalize_with_audio
    npc,               \* position in normalize_with_audio
    text,              \* argument text
    transcript,        \* argument transcript (a string or None)
    asr_lower,         \* argument asr_lower
    lattices,          \* per reordered tagged text: the verbalizer's options
    idx,               \* number of reordered tagged texts already handled
    normalized_texts,  \* normalized_texts: a list, from line 105 on a set
    normalized_options,\* the pairs (text, cer) of normalized_options
    result,            \* the returned pair (text, score)
    raised,            \* the exception the call ended with, if any
    \* ---- MeasureFst
    mpc, m_input, readings, nbest,
    \* ---- MoneyFst
    vpc, tagged, spoken_det, spoken_nondet

vars == <<npc, text, transcript, asr_lower, lattices, idx, normalized_texts,
          normalized_options, result, raised, mpc, m_input, readings, nbest, vpc, tagged, spoken_det, spoken_nondet>>

normVars == <<npc, text, transcript, asr_lower, lattices, idx, normalized_texts,
             normalized_options, result, raised>>
measureVars == <<mpc, m_input, readings, nbest>>
moneyVars == <<vpc, tagged, spoken_det, spoken_nondet>>

-----------------------------------------------------------------------------
(* Bounds *)

\* most reordered tagged texts of one call of normalize_with_audio
MaxVariants == 2

\* Python's None, unequal to every string
None == <<"None">>

StrsUpTo(A, n) == UNION {[1..k -> A] : k \in 0..n}

\* input texts: empty, whitespace only, and with content
Texts == {<<>>, <<" ">>, <<" ", "-">>, <<"-", "-">>}

\* strings the verbalizer can give back
Candidates ==
    { <<>>, <<"a">>, <<"A">>, <<"a", "b">>, <<"a", " ", "b">>, <<"a", "-", "b">>,
      <<"A", "-", "b", ".">>, <<"a", " ", ".">>, <<"a", "-", "-", "b">> }

\* options of a lattice with more than one path
TwoPathOptions == {<<"a">>, <<"A", "-", "b", ".">>}

\* transcripts of the audio
Transcripts ==
    { <<"a">>, <<"A">>, <<"a", " ", "b">>, <<"a", "-", "b">>, <<"A", " ", "b", ".">> }

-----------------------------------------------------------------------------
(* Python string operations *)

IsWhite(c) == c = " "

RECURSIVE LStrip(_)
LStrip(s) == IF s # <<>> /\ IsWhite(Head(s)) THEN LStrip(Tail(s)) ELSE s

RECURSIVE RStrip(_)
RStrip(s) ==
    IF s # <<>> /\ IsWhite(s[Len(s)]) THEN RStrip(SubSeq(s, 1, Len(s) - 1)) ELSE s

\* str.strip()
Strip(s) == RStrip(LStrip(s))

IsPrefix(p, s) == Len(p) <= Len(s) /\ SubSeq(s, 1, Len(p)) = p

\* str.replace(old, new), old non-empty: left to right, non-overlapping
RECURSIVE Replace(_, _, _)
Replace(s, old, new) ==
    IF Len(s) < Len(old) THEN s
    ELSE IF IsPrefix(old, s)
         THEN new \o Replace(SubSeq(s, Len(old) + 1, Len(s)), old, new)
         ELSE <<Head(s)>> \o Replace(Tail(s), old, new)

LowerChar(c) == IF c = "A" THEN "a" ELSE c

\* str.lower()
Lower(s) == [i \in 1..Len(s) |-> LowerChar(s[i])]

\* re.sub(r' +', ' ', s)
RECURSIVE CollapseSpaces(_)
CollapseSpaces(s) ==
    IF Len(s) < 2 THEN s
    ELSE IF s[1] = " " /\ s[2] = " " THEN CollapseSpaces(Tail(s))
         ELSE <<Head(s)>> \o CollapseSpaces(Tail(s))

Min2(a, b) == IF a <= b THEN a ELSE b

\* editdistance.eval: Levenshtein distance
RECURSIVE EditDistance(_, _)
EditDistance(a, b) ==
    IF a = <<>> THEN Len(b)
    ELSE IF b = <<>> THEN Len(a)
    ELSE IF Head(a) = Head(b) THEN EditDistance(Tail(a), Tail(b))
    ELSE 1 + Min2(EditDistance(Tail(a), Tail(b)),
                  Min2(EditDistance(Tail(a), b), EditDistance(a, Tail(b))))

-----------------------------------------------------------------------------
(* normalize_with_audio *)

space_right == <<"!", "?", ":", ";", ",", ".", "-", "(", ")", "*", "+", "-", "/",
                 "<", "=", ">", "@", "^", "_">>
space_both == <<"-", "(", ")", "*", "+", "-", "/", "<", "=", ">", "@", "^", "_">>

\* for punct in puncts: s = s.replace(punct, punct + ' ')
RECURSIVE SpaceRight(_, _, _)
SpaceRight(s, puncts, i) ==
    IF i > Len(puncts) THEN s
    ELSE SpaceRight(Replace(s, <<puncts[i]>>, <<puncts[i], " ">>), puncts, i + 1)

\* for punct in puncts: s = s.replace(punct, ' ' + punct + ' ')
RECURSIVE SpaceBoth(_, _, _)
SpaceBoth(s, puncts, i) ==
    IF i > Len(puncts) THEN s
    ELSE SpaceBoth(Replace(s, <<puncts[i]>>, <<" ", puncts[i], " ">>), puncts, i + 1)

preprocess(t) ==
    CollapseSpaces(SpaceBoth(SpaceRight(Replace(t, <<"-", "-">>, <<"-">>),
                                        space_right, 1), space_both, 1))

punctuation == <<"!", ",", ".", ":", ";", "?">>

\* for punct in punctuation: s = s.replace(f' {punct}', punct)
RECURSIVE JoinPunct(_, _)
JoinPunct(s, i) ==
    IF i > Len(punctuation) THEN s
    ELSE JoinPunct(Replace(s, <<" ", punctuation[i]>>, <<punctuation[i]>>), i + 1)

\* the display string of a verbalized option
PunctNormalize(s) ==
    Replace(Replace(Replace(Replace(JoinPunct(s, 1),
        <<"-", "-">>, <<"-">>), <<"(", " ">>, <<"(">>), <<" ", ")">>, <<")">>),
        <<" ", " ">>, <<" ">>)

\* for punct in punctuation: s = s.replace(punct, '')
RECURSIVE StripPunct(_, _)
StripPunct(s, i) ==
    IF i > Len(punctuation) THEN s
    ELSE StripPunct(Replace(s, <<punctuation[i]>>, <<>>), i + 1)

\* text.lower() if asr_lower else text
CaseFold(s, lower) == IF lower THEN Lower(s) ELSE s

\* the scoring copy text_clean of a display string
TextClean(s, lower) == Replace(StripPunct(CaseFold(s, lower), 1), <<"-">>, <<" ">>)

\* float('inf') * 100, above every finite score
InfScore == 10000 * 100

\* round(x, 2) of x = 100 * num / den in hundredths, ties to even
Round2(num, den) ==
    LET q == (num * 10000) \div den
        r == (num * 10000) % den
    IN  IF 2 * r < den THEN q
        ELSE IF 2 * r > den THEN q + 1
        ELSE IF q % 2 = 0 THEN q ELSE q + 1

\* round(word_error_rate([hyp], [ref], use_cer=True) * 100, 2), in hundredths of
\* a percent: the edit distance over the length of the reference argument
word_error_rate(hyp, ref) ==
    IF Len(ref) = 0 THEN InfScore ELSE Round2(EditDistance(hyp, ref), Len(ref))

OptionMutant(t, tr, lower) == <<TextClean(t, lower), word_error_rate(tr, TextClean(t, lower))>>

\* (text, cer) as appended to normalized_options
Option(t, tr, lower) == <<t, word_error_rate(tr, TextClean(t, lower))>>

Range(s) == {s[i] : i \in 1..Len(s)}

\* set(normalized_texts) after the punctuation loop
DisplaySet(cands) == {PunctNormalize(c) : c \in Range(cands)}

\* key=lambda x: x[1]
SortKey(o) == o[2]

\* the pairs sorted(...)[0] can be: the set is iterated in no fixed order, the
\* sort is stable, so any pair of least key can come first
FirstSorted(options) == {o \in options : \A p \in options : SortKey(o) <= SortKey(p)}

ContinueMutant(i, n) == n

\* `continue` on a lattice with no states: on to the next reordered tagged text
Continue(i, n) == i + 1

\* all sequences of at most MaxVariants lattices, a lattice being the list of
\* the verbalizer's options (the empty list: num_states() == 0)
Lattice ==
    {<<>>} \cup {<<c>> : c \in Candidates}
           \cup {<<c, d>> : c \in TwoPathOptions, d \in TwoPathOptions}
LatticeSeqs == UNION {[1..k -> Lattice] : k \in 0..MaxVariants}

NormIdle ==
    /\ npc = "idle" /\ text = <<>> /\ transcript = None /\ asr_lower = TRUE
    /\ lattices = <<>> /\ idx = 0 /\ normalized_texts = <<>>
    /\ normalized_options = {} /\ result = <<>> /\ raised = ""

MeasureIdle == mpc = "idle" /\ m_input = <<>> /\ readings = {} /\ nbest = <<>>

MoneyIdle == vpc = "idle" /\ tagged = <<>> /\ spoken_det = {} /\ spoken_nondet = {}

NormInit ==
    /\ npc = "start"
    /\ text \in Texts
    /\ transcript \in Transcripts \cup {None}
    /\ asr_lower \in BOOLEAN
    /\ lattices = <<>> /\ idx = 0 /\ normalized_texts = <<>>
    /\ normalized_options = {} /\ result = <<>> /\ raised = ""
    /\ MeasureIdle /\ MoneyIdle

\* lines 63-74: get_tagged_texts on the text and on its preprocessed form.  An
\* empty stripped text gives back the str itself, a non-empty one the list of
\* tagged texts; '' + '' is '' and set('') is empty, str + list is a TypeError.
GetTaggedTexts ==
    /\ npc = "start"
    /\ LET e1 == Strip(text) = <<>>
           e2 == Strip(preprocess(text)) = <<>>
       IN  IF e1 /\ e2
           THEN /\ lattices' = <<>>
                /\ npc' = "verbalize"
                /\ raised' = raised
           ELSE IF e1 # e2
           THEN /\ lattices' = <<>>
                /\ npc' = "raised"
                /\ raised' = "TypeError"
           ELSE /\ lattices' \in LatticeSeqs
                /\ npc' = "verbalize"
                /\ raised' = raised
    /\ UNCHANGED <<text, transcript, asr_lower, idx, normalized_texts,
                   normalized_options, result>>
    /\ UNCHANGED <<measureVars, moneyVars>>

\* lines 76-93: one reordered tagged text
Verbalize ==
    /\ npc = "verbalize"
    /\ idx < Len(lattices)
    /\ IF lattices[idx + 1] = <<>>
       THEN /\ idx' = Continue(idx, Len(lattices))
            /\ normalized_texts' = normalized_texts
       ELSE /\ idx' = idx + 1
            /\ normalized_texts' = normalized_texts \o lattices[idx + 1]
    /\ UNCHANGED <<npc, text, transcript, asr_lower, lattices, normalized_options,
                   result, raised>>
    /\ UNCHANGED <<measureVars, moneyVars>>

\* lines 95-96
RaiseNoCandidates ==
    /\ npc = "verbalize"
    /\ idx >= Len(lattices)
    /\ Len(normalized_texts) = 0
    /\ npc' = "raised"
    /\ raised' = "ValueError"
    /\ UNCHANGED <<text, transcript, asr_lower, lattices, idx, normalized_texts,
                   normalized_options, result>>
    /\ UNCHANGED <<measureVars, moneyVars>>

\* lines 98-123 with a str transcript
Score ==
    /\ npc = "verbalize"
    /\ idx >= Len(lattices)
    /\ Len(normalized_texts) # 0
    /\ transcript # None
    /\ normalized_texts' = DisplaySet(normalized_texts)
    /\ normalized_options' = {Option(t, transcript, asr_lower) : t \in normalized_texts'}
    /\ result' \in FirstSorted(normalized_options')
    /\ npc' = "returned"
    /\ UNCHANGED <<text, transcript, asr_lower, lattices, idx, raised>>
    /\ UNCHANGED <<measureVars, moneyVars>>

\* lines 107-116 with transcript None: word_error_rate does list(None)
ScoreNone ==
    /\ npc = "verbalize"
    /\ idx >= Len(lattices)
    /\ Len(normalized_texts) # 0
    /\ transcript = None
    /\ normalized_texts' = DisplaySet(normalized_texts)
    /\ raised' = "TypeError"
    /\ npc' = "raised"
    /\ UNCHANGED <<text, transcript, asr_lower, lattices, idx, normalized_options, result>>
    /\ UNCHANGED <<measureVars, moneyVars>>

NormNext ==
    \/ GetTaggedTexts
    \/ Verbalize
    \/ RaiseNoCandidates
    \/ Score
    \/ ScoreNone

SpecNormalize == NormInit /\ [][NormNext]_vars

-----------------------------------------------------------------------------
(* Properties of normalize_with_audio *)

Finished == npc \in {"returned", "raised"}

RECURSIVE Flatten(_)
Flatten(ls) == IF ls = <<>> THEN <<>> ELSE Head(ls) \o Flatten(Tail(ls))

\* every option of every verbalizer lattice of the call
Generated == Range(Flatten(lattices))

\* the display form of every generated candidate
DisplayCandidates == {PunctNormalize(c) : c \in Generated}

\* the CER of a display string against the transcript as passed
CerOf(d) == word_error_rate(transcript, TextClean(d, asr_lower))

C2_EmptyInputReturns ==
    (Finished /\ Strip(text) = <<>>) => (npc = "returned" /\ raised = "")

\* C3: with transcript None the scoring is skipped: the call returns its
\* candidates without a score and without an error.
C3_NoneTranscriptSkipsScoring ==
    (Finished /\ transcript = None /\ Generated # {}) =>
        (npc = "returned" /\ raised = "" /\ normalized_options = {})

\* C4: for a non-empty input the call raises ValueError exactly when no
\* reordered tagged text yields a verbalized option; a lattice with no states
\* is skipped, and the options of all the others are collected and ranked.
C4_ValueErrorIffNoCandidate ==
    /\ (npc = "verbalize") => normalized_texts = Flatten(SubSeq(lattices, 1, idx))
    /\ (Finished /\ Strip(text) # <<>>) =>
          /\ (raised = "ValueError") <=> (Generated = {})
          /\ (npc = "returned") =>
                {o[1] : o \in normalized_options} = DisplayCandidates

\* C4 witness: a lattice with no states was skipped, a later one gave the
\* candidate that is returned
C4_Witness ==
    /\ npc = "returned"
    /\ Len(lattices) = 2
    /\ lattices[1] = <<>>
    /\ lattices[2] # <<>>

\* the claim's normal form of a string: punctuation stripped, hyphens turned
\* into spaces, case folded
ClaimNorm(s) == Replace(StripPunct(Lower(s), 1), <<"-">>, <<" ">>)

\* C5: with asr_lower, a candidate equal to the transcript after punctuation
\* stripping, hyphen-to-space conversion and case-folding of both has score 0.
C5_EqualAfterNormalisationScoresZero ==
    (npc = "returned" /\ asr_lower) =>
        \A o \in normalized_options :
            (ClaimNorm(o[1]) = ClaimNorm(transcript)) => o[2] = 0

-----------------------------------------------------------------------------
(* Transducers.  A configuration is [rest, out, w, branch]: the input still   *)
(* to read, the output written, the weight of the path (in hundredths) and    *)
(* the reading the path belongs to.                                           *)

Config(in) == [rest |-> in, out |-> <<>>, w |-> 0, branch |-> ""]

\* pynutil.insert(toks)
Insert(S, toks) == {[c EXCEPT !.out = c.out \o toks] : c \in S}

\* pynini.cross(in, toks): read in, write toks
Cross(S, in, toks) ==
    {[c EXCEPT !.rest = SubSeq(c.rest, Len(in) + 1, Len(c.rest)), !.out = c.out \o toks] :
        c \in {x \in S : IsPrefix(in, x.rest)}}

\* pynutil.delete(in)
Delete(S, in) == Cross(S, in, <<>>)

\* an acceptor of one character of chars: the character is copied
AcceptChar(S, chars) ==
    {[c EXCEPT !.rest = Tail(c.rest), !.out = c.out \o <<Head(c.rest)>>] :
        c \in {x \in S : x.rest # <<>> /\ Head(x.rest) \in chars}}

\* pynutil.add_weight(fst, weight)
AddWeight(S, weight) == {[c EXCEPT !.w = c.w + weight] : c \in S}

\* marks the reading a path belongs to
Branch(S, name) == {[c EXCEPT !.branch = name] : c \in S}

\* number of leading spaces
RECURSIVE LeadingSpaces(_)
LeadingSpaces(s) ==
    IF s # <<>> /\ IsWhite(Head(s)) THEN 1 + LeadingSpaces(Tail(s)) ELSE 0

\* graph_utils.delete_space: pynutil.delete(pynini.closure(NEMO_WHITE_SPACE))
delete_space(S) ==
    UNION {{[c EXCEPT !.rest = SubSeq(c.rest, k + 1, Len(c.rest))] :
               k \in 0..LeadingSpaces(c.rest)} : c \in S}

\* graph_utils.insert_space
insert_space(S) == Insert(S, <<" ">>)

\* the paths that have read the whole input
Accepting(S) == {c \in S : c.rest = <<>>}

-----------------------------------------------------------------------------
(* MeasureFst: taggers/measure.py *)

\* longest input of the measure tagger
MaxInLen == 4

NEMO_DIGIT == {"1", "2"}
NEMO_ALPHA == {"m", "A"}
MeasureAlphabet == NEMO_DIGIT \cup NEMO_ALPHA \cup {"-", ".", " ", "/"}
MeasureInputs == StrsUpTo(MeasureAlphabet, MaxInLen)

NEMO_NON_BREAKING_SPACE == "NBSP"

\* cardinal.graph: the words of a number written in digits
NumberWords(ds) ==
    CASE ds = <<"1">> -> <<"one">>
      [] ds = <<"2">> -> <<"two">>
      [] ds = <<"1", "1">> -> <<"eleven">>
      [] ds = <<"1", "2">> -> <<"twelve">>
      [] ds = <<"2", "1">> -> <<"twenty", " ", "one">>
      [] ds = <<"2", "2">> -> <<"twenty", " ", "two">>
      [] OTHER -> <<>>

IsNumber(ds) == NumberWords(ds) # <<>>

\* the configurations after a number, read by cardinal.graph, that ok admits
CardinalOn(S, ok) ==
    UNION {{[c EXCEPT !.rest = SubSeq(c.rest, n + 1, Len(c.rest)),
                      !.out = c.out \o NumberWords(SubSeq(c.rest, 1, n))] :
               n \in {k \in 1..Len(c.rest) :
                        /\ IsNumber(SubSeq(c.rest, 1, k))
                        /\ SubSeq(c.rest, 1, k) \in ok}} : c \in S}

Numbers == {ds \in StrsUpTo(NEMO_DIGIT, 2) : IsNumber(ds)}

\* cardinal.graph
cardinal_graph(S) == CardinalOn(S, Numbers)

\* (NEMO_SIGMA - "1") @ cardinal_graph
cardinal_graph_not_one(S) == CardinalOn(S, Numbers \ {<<"1">>})

DigitWord(c) == IF c = "1" THEN "one" ELSE "two"

\* the digits of a fractional part, read one by one
RECURSIVE DigitWords(_)
DigitWords(ds) ==
    IF ds = <<>> THEN <<>>
    ELSE IF Len(ds) = 1 THEN <<DigitWord(ds[1])>>
    ELSE <<DigitWord(ds[1]), " ">> \o DigitWords(Tail(ds))

\* number of leading digits
RECURSIVE LeadingDigits(_)
LeadingDigits(s) ==
    IF s # <<>> /\ Head(s) \in NEMO_DIGIT THEN 1 + LeadingDigits(Tail(s)) ELSE 0

\* fractional_part: "<digits>"
graph_fractional(S) ==
    UNION {{[c EXCEPT !.rest = SubSeq(c.rest, n + 1, Len(c.rest)),
                      !.out = c.out \o <<"fractional_part:", " ", "\"">>
                                    \o DigitWords(SubSeq(c.rest, 1, n)) \o <<"\"">>] :
               n \in 1..LeadingDigits(c.rest)} : c \in S}

\* integer_part: "<number>"
graph_integer(S) ==
    Insert(cardinal_graph(Insert(S, <<"integer_part:", " ", "\"">>)), <<"\"">>)

\* decimal.final_graph_wo_negative: an optional integer part, the point, the
\* fractional part
final_graph_wo_negative(S) ==
    graph_fractional(Delete(S \cup insert_space(graph_integer(S)), <<".">>))

\* pynini.string_file("data/measurements.tsv")
graph_unit_file(S) == Cross(S, <<"m">>, <<"meter">>)

\* graph_unit @ SINGULAR_TO_PLURAL
graph_unit_plural(S) == Cross(S, <<"m">>, <<"meters">>)

graph_unit(S) == graph_unit_file(S)

optional_graph_negative(S) ==
    S \cup Cross(Insert(S, <<"negative:", " ">>), <<"-">>, <<"\"", "true", "\"", " ">>)

graph_unit2(S) ==
    graph_unit(Insert(delete_space(Cross(S, <<"/">>, <<"per">>)),
                      <<NEMO_NON_BREAKING_SPACE>>))

optional_graph_unit2(S) ==
    S \cup graph_unit2(Insert(delete_space(S), <<NEMO_NON_BREAKING_SPACE>>))

unit_plural(S) ==
    LET X == Insert(S, <<"units:", " ", "\"">>)
    IN  Insert(optional_graph_unit2(graph_unit_plural(X)) \cup graph_unit2(X), <<"\"">>)

unit_singular(S) ==
    LET X == Insert(S, <<"units:", " ", "\"">>)
    IN  Insert(optional_graph_unit2(graph_unit(X)) \cup graph_unit2(X), <<"\"">>)

\* lines 74-81
subgraph_decimal_measure(S) ==
    unit_plural(Insert(delete_space(final_graph_wo_negative(
        optional_graph_negative(Insert(S, <<"decimal", " ", "{", " ">>)))),
        <<" ", "}", " ">>))

NumberNotOneMutant(S) == cardinal_graph(S)

\* line 87
NumberNotOne(S) == cardinal_graph_not_one(S)

\* lines 83-92
subgraph_cardinal_plural(S) ==
    unit_plural(Insert(Insert(delete_space(NumberNotOne(
        Insert(optional_graph_negative(Insert(S, <<"cardinal", " ", "{", " ">>)),
               <<"integer:", " ", "\"">>))),
        <<"\"">>), <<" ", "}", " ">>))

\* lines 94-103
subgraph_cardinal_one(S) ==
    unit_singular(Insert(Insert(delete_space(Cross(
        Insert(optional_graph_negative(Insert(S, <<"cardinal", " ", "{", " ">>)),
               <<"integer:", " ", "\"">>), <<"1">>, <<"one">>)),
        <<"\"">>), <<" ", "}", " ">>))

\* pynini.closure(fst): here of optional_serial_start's body
RECURSIVE optional_serial_start(_)
optional_serial_start(S) ==
    LET step == Cross(AcceptChar(S, NEMO_ALPHA), <<"-">>, <<" ">>)
                \cup insert_space(AcceptChar(S, NEMO_ALPHA))
    IN  IF step = {} THEN S ELSE S \cup optional_serial_start(step)

\* (pynutil.insert(" ") + NEMO_ALPHA) | (pynini.cross('-', ' ') + NEMO_ALPHA)
serial_alpha_end(S) ==
    AcceptChar(insert_space(S), NEMO_ALPHA) \cup AcceptChar(Cross(S, <<"-">>, <<" ">>), NEMO_ALPHA)

\* lines 111-113
serial_graph_cardinal_end(S) == serial_alpha_end(cardinal_graph(S))

\* lines 114-116: NEMO_ALPHA + insert(" ") | cross('-', ' ') + NEMO_ALPHA, then
\* cardinal.graph
serial_graph_cardinal_start(S) ==
    cardinal_graph(insert_space(AcceptChar(S, NEMO_ALPHA))
                   \cup AcceptChar(Cross(S, <<"-">>, <<" ">>), NEMO_ALPHA))

\* lines 120-122
serial_graph_decimal_one(S) == serial_alpha_end(final_graph_wo_negative(S))

\* pynini.closure(pynutil.insert(" ") + serial_graph_decimal)
RECURSIVE serial_graph_decimal_more(_)
serial_graph_decimal_more(S) ==
    LET step == serial_graph_decimal_one(insert_space(S))
    IN  IF step = {} THEN S ELSE S \cup serial_graph_decimal_more(step)

\* lines 123-125
serial_graph_decimal(S) ==
    serial_graph_decimal_more(serial_graph_decimal_one(optional_serial_start(S)))

\* weights of add_weight, in hundredths
MeasureWeight == 109

SerialWeightMutant == MeasureWeight

SerialWeight == 210

\* lines 128-136
subgraph_cardinal_serial(S) ==
    Insert(delete_space(
        serial_graph_cardinal_end(
            Insert(optional_graph_negative(Insert(S, <<"cardinal", " ", "{", " ">>)),
                   <<"integer:", " ", "\"">>))
        \cup serial_graph_cardinal_start(
            Insert(optional_graph_negative(Insert(S, <<"cardinal", " ", "{", " ">>)),
                   <<"integer:", " ", "\"">>))),
        <<"\"", " ", "}", " ", "units:", " ", "\"", "serial", "\"">>)

\* lines 139-145
subgraph_decimal_serial(S) ==
    Insert(serial_graph_decimal(
        optional_graph_negative(Insert(S, <<"decimal", " ", "{", " ">>))),
        <<" ", "}", " ", "units:", " ", "\"", "\"">>)

\* lines 127-136
subgraph_cardinal(S) ==
    Branch(AddWeight(subgraph_cardinal_plural(S) \cup subgraph_cardinal_one(S),
                     MeasureWeight), "measure")
    \cup Branch(AddWeight(subgraph_cardinal_serial(S), SerialWeight), "serial")

\* lines 138-145
subgraph_decimal(S) ==
    Branch(AddWeight(subgraph_decimal_measure(S), MeasureWeight), "measure")
    \cup Branch(AddWeight(subgraph_decimal_serial(S), SerialWeight), "serial")

\* GraphFst.add_tokens
add_tokens(S) ==
    Insert(subgraph_decimal(Insert(S, <<"measure", " ", "{", " ">>))
           \cup subgraph_cardinal(Insert(S, <<"measure", " ", "{", " ">>)),
           <<" ", "}">>)

\* the tagged readings of an input: MeasureFst.fst applied to it
MeasureFst(in) ==
    {[out |-> c.out, w |-> c.w, branch |-> c.branch] :
        c \in Accepting(add_tokens({Config(in)}))}

\* n of select_all_semiotic_tags
NShortest == 100

\* pynini.shortestpath(lattice, nshortest=n): the lists of the n cheapest paths
\* by weight, paths of one weight in any order
ShortestPaths(R) ==
    LET k == IF Cardinality(R) <= NShortest THEN Cardinality(R) ELSE NShortest
    IN  {p \in [1..k -> R] :
            /\ \A i, j \in 1..k : i < j => (p[i] # p[j] /\ p[i].w <= p[j].w)
            /\ \A r \in R : (\A i \in 1..k : p[i] # r) => \A i \in 1..k : p[i].w <= r.w}

MeasureInit ==
    /\ mpc = "start"
    /\ m_input \in MeasureInputs
    /\ readings = {}
    /\ nbest = <<>>
    /\ NormIdle /\ MoneyIdle

\* find_tags: the lattice of the input
Tag ==
    /\ mpc = "start"
    /\ readings' = MeasureFst(m_input)
    /\ mpc' = "tagged"
    /\ UNCHANGED <<m_input, nbest>>
    /\ UNCHANGED <<normVars, moneyVars>>

\* select_all_semiotic_tags
SelectAllSemioticTags ==
    /\ mpc = "tagged"
    /\ nbest' \in ShortestPaths(readings)
    /\ mpc' = "selected"
    /\ UNCHANGED <<m_input, readings>>
    /\ UNCHANGED <<normVars, moneyVars>>

MeasureNext ==
    \/ Tag
    \/ SelectAllSemioticTags

SpecMeasure == MeasureInit /\ [][MeasureNext]_vars

-----------------------------------------------------------------------------
(* Properties of MeasureFst *)

\* the tokens of s before its first quote
RECURSIVE UpToQuote(_)
UpToQuote(s) ==
    IF s = <<>> \/ Head(s) = "\"" THEN <<>> ELSE <<Head(s)>> \o UpToQuote(Tail(s))

\* the tokens of s from the first occurrence of tok on
RECURSIVE From(_, _)
From(s, tok) == IF s = <<>> \/ Head(s) = tok THEN s ELSE From(Tail(s), tok)

\* the quoted value of the first field called name, <<"?">> without it
FieldValue(out, name) ==
    LET f == From(out, name)
    IN  IF Len(f) < 3 THEN <<"?">> ELSE UpToQuote(SubSeq(f, 4, Len(f)))

UnitsOf(out) == FieldValue(out, "units:")
IntegerOf(out) == FieldValue(out, "integer:")

MeasureReadings == {r \in readings : r.branch = "measure"}
SerialReadings == {r \in readings : r.branch = "serial"}

\* the longest prefix of s made of digits and points
RECURSIVE NumeralPrefix(_)
NumeralPrefix(s) ==
    IF s # <<>> /\ Head(s) \in NEMO_DIGIT \cup {"."}
    THEN <<Head(s)>> \o NumeralPrefix(Tail(s))
    ELSE <<>>

\* the numeral an input starts with, after an optional "-"
NumeralOf(in) ==
    IF in # <<>> /\ Head(in) = "-" THEN NumeralPrefix(Tail(in)) ELSE NumeralPrefix(in)

\* the first word of the units of a reading
UnitHead(r) == Head(UnitsOf(r.out) \o <<"?">>)

\* C6: in the measure readings the unit is singular, with integer "one",
\* exactly when the numeral is the literal "1" (optionally after "-"); every
\* other cardinal and every decimal has the plural unit ("1m" never gives
\* "meters", "12m" never gives "meter").  A unit that is only "/m" reads
\* "per meter" for every numeral.
C6_SingularIffLiteralOne ==
    (mpc # "start") =>
        \A r \in MeasureReadings :
            /\ UnitHead(r) \in {"meter", "meters", "per"}
            /\ (UnitHead(r) = "meter") =>
                  (NumeralOf(m_input) = <<"1">> /\ IntegerOf(r.out) = <<"one">>)
            /\ (UnitHead(r) = "meters") => NumeralOf(m_input) # <<"1">>

\* C6 witness: a negative "1" read with the singular unit
C6_Witness ==
    /\ mpc = "tagged"
    /\ IsPrefix(<<"-">>, m_input)
    /\ \E r \in MeasureReadings : UnitHead(r) = "meter"

AllIn(s, chars) == s # <<>> /\ \A i \in 1..Len(s) : s[i] \in chars

\* letters then a number, or a number then letters, joined directly or by "-"
IsAlternatingRun(in) ==
    \E i \in 1..(Len(in) - 1) :
        LET a == SubSeq(in, 1, i)
            b0 == SubSeq(in, i + 1, Len(in))
            b == IF Head(b0) = "-" THEN Tail(b0) ELSE b0
        IN  \/ AllIn(a, NEMO_ALPHA) /\ IsNumber(b)
            \/ IsNumber(a) /\ AllIn(b, NEMO_ALPHA)

\* C7: every alternating run of letters and digits is accepted by the serial
\* branch, and every serial reading, cardinal or decimal, has units "serial".
C7_SerialRunsTaggedSerial ==
    (mpc # "start") =>
        /\ IsAlternatingRun(m_input) => SerialReadings # {}
        /\ \A r \in SerialReadings : UnitsOf(r.out) = <<"serial">>

-----------------------------------------------------------------------------
(* MoneyFst: verbalizers/money.py.  The input is a tagged money token, a     *)
(* sequence of lexical tokens; the output is the spoken text, a sequence of  *)
(* words and spaces.                                                         *)

MoneyFields == {"negative:", "integer_part:", "fractional_part:", "quantity:", "currency:"}

\* the values a field can carry
FieldValues(f) ==
    CASE f = "negative:" -> {<<"true">>}
      [] f = "integer_part:" -> {<<"twelve">>}
      [] f = "fractional_part:" -> {<<"five">>, <<"zero">>, <<"zero", " ", "zero">>}
      [] f = "quantity:" -> {<<"million">>}
      [] f = "currency:" -> {<<"dollars">>}

\* the orders of any fields, each at most once
FieldOrders ==
    {o \in StrsUpTo(MoneyFields, Cardinality(MoneyFields)) :
        \A i, j \in 1..Len(o) : i # j => o[i] # o[j]}

\* the tagged tokens of a field order: field: "value" for each field
RECURSIVE SerializeFields(_)
SerializeFields(o) ==
    IF o = <<>> THEN {<<>>}
    ELSE {<<Head(o), " ", "\"">> \o v \o <<"\"", " ">> \o rest :
             v \in FieldValues(Head(o)), rest \in SerializeFields(Tail(o))}

MoneyHeader == <<"money", " ", "{", " ">>

\* money { field: "value" ... }
MoneyInputs == {MoneyHeader \o body \o <<"}">> : body \in UNION {SerializeFields(o) : o \in FieldOrders}}

\* number of leading tokens that are not a quote
RECURSIVE LeadingNotQuote(_)
LeadingNotQuote(s) ==
    IF s # <<>> /\ Head(s) # "\"" THEN 1 + LeadingNotQuote(Tail(s)) ELSE 0

\* pynini.closure(NEMO_NOT_QUOTE, 1): the text is copied
not_quote_plus(S) ==
    UNION {{[c EXCEPT !.rest = SubSeq(c.rest, n + 1, Len(c.rest)),
                      !.out = c.out \o SubSeq(c.rest, 1, n)] :
               n \in 1..LeadingNotQuote(c.rest)} : c \in S}

\* delete(name) + delete_space + delete("\"") + closure(NEMO_NOT_QUOTE, 1) + delete("\"")
quoted_field(S, name) ==
    Delete(not_quote_plus(Delete(delete_space(Delete(S, <<name>>)), <<"\"">>)), <<"\"">>)

\* line 45
optional_sign(S) ==
    S \cup delete_space(Cross(S, <<"negative:", " ", "\"", "true", "\"">>, <<"minus", " ">>))

\* lines 46-52
integer(S) == quoted_field(S, "integer_part:")

\* line 53
optional_integer(S) == S \cup insert_space(delete_space(integer(S)))

\* lines 54-60
fractional_default(S) == quoted_field(S, "fractional_part:")

\* line 62
fractional_point(S) == fractional_default(Insert(S, <<"point", " ">>))

\* pynini.closure(pynini.cross(' zero', ''))
RECURSIVE more_zeros(_)
more_zeros(S) ==
    LET step == Delete(S, <<" ", "zero">>)
    IN  IF step = {} THEN S ELSE S \cup more_zeros(step)

\* lines 65-74
fractional2(S) ==
    delete_space(Delete(delete_space(more_zeros(Delete(Delete(delete_space(
        Delete(S, <<"fractional_part:">>)), <<"\"">>), <<"zero">>))), <<"\"">>))

\* lines 62-76
fractional(S, deterministic) ==
    IF deterministic THEN fractional_point(S)
    ELSE fractional_point(S) \cup fractional2(S) \cup fractional_default(S)

\* lines 78-86
quantity(S) == quoted_field(insert_space(delete_space(S)), "quantity:")

\* line 87
optional_quantity(S) == S \cup quantity(S)

\* lines 89-95
unit(S) == quoted_field(S, "currency:")

\* data/currency_minor.tsv
minor_currencies == {"cents", "pence"}

\* pynini.union(*minor_currencies), each pynini.closure(pynutil.insert(min_cur + " "), 0, 1)
minor_currency(S) == S \cup UNION {Insert(S, <<m, " ">>) : m \in minor_currencies}

\* lines 98-99
graph_deterministic(S) ==
    LET T == optional_sign(S)
    IN  unit(insert_space(delete_space(
            integer(T)
            \cup quantity(integer(T))
            \cup optional_quantity(fractional(optional_integer(T), TRUE)))))

\* lines 113-124
graph_non_deterministic(S) ==
    LET F == insert_space(fractional(minor_currency(insert_space(delete_space(
                 unit(insert_space(delete_space(integer(S))))))), FALSE))
    IN  Insert(F, <<"cents">>) \cup Insert(F, <<"pence">>)

\* lines 97-124
graph(S, deterministic) ==
    IF deterministic THEN graph_deterministic(S) ELSE graph_non_deterministic(S)

\* GraphFst.delete_tokens
delete_tokens(S, deterministic) ==
    Delete(delete_space(graph(delete_space(Delete(delete_space(
        Delete(S, <<"money">>)), <<"{">>)), deterministic)), <<"}">>)

\* the spoken outputs of MoneyFst(deterministic).fst on a tagged token
MoneyFst(in, deterministic) ==
    {c.out : c \in Accepting(delete_tokens({Config(in)}, deterministic))}

MoneyInit ==
    /\ vpc = "start"
    /\ tagged \in MoneyInputs
    /\ spoken_det = {}
    /\ spoken_nondet = {}
    /\ NormIdle /\ MeasureIdle

\* MoneyFst(decimal, deterministic=True) applied to the token
VerbalizeDeterministic ==
    /\ vpc \in {"start", "nondet"}
    /\ spoken_det' = MoneyFst(tagged, TRUE)
    /\ vpc' = IF vpc = "start" THEN "det" ELSE "both"
    /\ UNCHANGED <<tagged, spoken_nondet>>
    /\ UNCHANGED <<normVars, measureVars>>

\* MoneyFst(decimal, deterministic=False) applied to the token
VerbalizeNonDeterministic ==
    /\ vpc \in {"start", "det"}
    /\ spoken_nondet' = MoneyFst(tagged, FALSE)
    /\ vpc' = IF vpc = "start" THEN "nondet" ELSE "both"
    /\ UNCHANGED <<tagged, spoken_det>>
    /\ UNCHANGED <<normVars, measureVars>>

MoneyNext ==
    \/ VerbalizeDeterministic
    \/ VerbalizeNonDeterministic

SpecMoney == MoneyInit /\ [][MoneyNext]_vars

-----------------------------------------------------------------------------
(* Properties of MoneyFst *)

NegativeField == <<"negative:", " ", "\"", "true", "\"", " ">>

\* the token carries negative: "true" as its first field
CarriesNegative(in) == IsPrefix(MoneyHeader \o NegativeField, in)

\* the same token without its negative field
WithoutNegative(in) ==
    MoneyHeader \o SubSeq(in, Len(MoneyHeader) + Len(NegativeField) + 1, Len(in))

BeginsWithMinus(o) == IsPrefix(<<"minus", " ">>, o)

\* a set of outputs of a token with negative: "true": accepted, every output
\* begins with "minus " and no output carries the field
SpokenNegative(outs) ==
    /\ outs # {}
    /\ \A o \in outs : BeginsWithMinus(o) /\ "negative:" \notin Range(o)

\* C9: in deterministic and in non-deterministic mode, a money token with
\* negative: "true" (a token the mode accepts without that field) is accepted
\* and its spoken output begins with "minus ", the field being consumed.
C9_NegativeSpokenAsMinus ==
    (vpc = "both" /\ CarriesNegative(tagged)) =>
        /\ (MoneyFst(WithoutNegative(tagged), TRUE) # {}) => SpokenNegative(spoken_det)
        /\ (MoneyFst(WithoutNegative(tagged), FALSE) # {}) => SpokenNegative(spoken_nondet)

\* C10: every tagged money string the deterministic verbalizer accepts is
\* accepted by the non-deterministic one, with the deterministic output among
\* the non-deterministic outputs.
C10_NonDeterministicExtendsDeterministic ==
    (vpc = "both" /\ spoken_det # {}) =>
        (spoken_nondet # {} /\ spoken_det \subseteq spoken_nondet)

-----------------------------------------------------------------------------
(* Well-formedness of the tagged strings of MeasureFst *)

\* the tokens the wire format has outside quoted values: class names, braces,
\* field names and the spaces between them
StructureTokens ==
    {"measure", "cardinal", "decimal", "{", "}", " ",
     "negative:", "integer:", "integer_part:", "fractional_part:", "units:"}

\* the brace depth after out, read from depth d with quote state q; -1 once a
\* brace closes that was not opened
RECURSIVE BraceDepth(_, _, _)
BraceDepth(out, d, q) ==
    IF d < 0 \/ out = <<>> THEN d
    ELSE IF Head(out) = "\"" THEN BraceDepth(Tail(out), d, ~q)
    ELSE IF ~q /\ Head(out) = "{" THEN BraceDepth(Tail(out), d + 1, q)
    ELSE IF ~q /\ Head(out) = "}" THEN BraceDepth(Tail(out), d - 1, q)
    ELSE BraceDepth(Tail(out), d, q)

BracesBalanced(out) == BraceDepth(out, 0, FALSE) = 0

\* every opened quote is closed
QuotesClosed(out) == Cardinality({i \in 1..Len(out) : out[i] = "\""}) % 2 = 0

\* the tokens of out that lie outside every quoted value
RECURSIVE OutsideQuotes(_, _)
OutsideQuotes(out, q) ==
    IF out = <<>> THEN {}
    ELSE IF Head(out) = "\"" THEN OutsideQuotes(Tail(out), ~q)
    ELSE IF q THEN OutsideQuotes(Tail(out), q)
    ELSE {Head(out)} \cup OutsideQuotes(Tail(out), q)

\* no text between the fields but field names and structure
NoBareText(out) == OutsideQuotes(out, FALSE) \subseteq StructureTokens

WellFormed(out) == BracesBalanced(out) /\ QuotesClosed(out) /\ NoBareText(out)

\* C11: every tagged string the measure tagger emits, the serial cardinal and
\* serial decimal readings included, is well-formed: braces balanced, quotes
\* closed, and all text inside a token a field name or inside a quoted value.
C11_TaggedStringsWellFormed ==
    (mpc # "start") => \A r \in readings : WellFormed(r.out)

====
